---- MODULE Spec2Model ----
(***************************************************************************)
(* A model of autopkg-runner.py (class AutoPkgRunner and main).            *)
(*                                                                         *)
(* The process is either in default mode (configure_munki_repo,            *)
(* configure_trust_info, add_repositories, run_recipes) or in upload mode  *)
(* (upload_repo with _upload_directory and _ensure_remote_directory).      *)
(* External commands and the SFTP server are the environment: every call   *)
(* to them is one step whose outcome is drawn from the outcomes the call   *)
(* can have.                                                               *)
(***************************************************************************)
EXTENDS Naturals, Sequences, FiniteSets

\* ------------------------------------------------------------------ bounds

\* Longest configured list of repositories.
MaxRepos == 2
\* Longest configured list of recipes.
MaxRecipes == 2
\* Largest number of entries (files and directories) of the local tree.
MaxEntries == 3
\* Largest number of transport faults the server injects into stat/mkdir/put.
MaxFaults == 1
\* Largest number of directories somebody else creates while a mirror runs.
MaxEnvMkdirs == 1
\* File and directory names of the local tree, in the order in which a
\* directory takes them: the code never looks into a name, so a tree stands
\* for all the trees that differ from it in their names only.
Names == <<"a", "b", "c">>

VARIABLES
    mode,           \* "default" | "upload": args.upload in main
    pc,             \* the statement the process is at; "exited" once it ended
    exitCode,       \* the process's exit code, meaningful when pc = "exited"
    fatalAt,        \* the step that ended the process with a nonzero code
    \* ---- self.config
    repo_path,      \* "unset" | "missing" (not on disk) | "exists"
    repos,          \* sequence of "valid" | "invalid" repository entries
    recipes,        \* sequence of "recipe" | "" (an empty identifier)
    sftp,           \* which of the sftp_* keys and paramiko are there
    \* ---- default mode
    steps,          \* the steps of run() entered so far, in order
    munki,          \* configure_munki_repo: "skipped", or how its write ended
    trust,          \* what configure_trust_info did
    envTrust,       \* os.environ has FAIL_RECIPES_WITHOUT_TRUST_INFO
    ri,             \* index of the next entry of the running for loop
    addLog,         \* repo-add calls: <<index, what came of the entry>>
    recipeLog,      \* autopkg run calls: <<index, outcome>>
    \* ---- upload mode
    localDirs,      \* directories of the local tree (paths below the root)
    localFiles,     \* files of the local tree
    remoteDirs,     \* directories of the server (the root always is one)
    remoteData,     \* files of the server: path -> content
    transport,      \* "none" | "open" | "closed" | "close_failed"
    channel,        \* the SFTP client, same values
    outcome,        \* how the try block of upload_repo ended
    stack,          \* frames of _upload_directory: [dir, todo]
    mpc,            \* where the top frame is
    wi,             \* index of the segment _ensure_remote_directory is at
    log,            \* remote operations of this run: [op, path, res]
    faults,         \* transport faults injected so far
    envMkdirs,      \* directories somebody else created so far
    rerun,          \* this is the program's second start in upload mode
    clean,          \* no call of this run was made to fail by the environment
    raced,          \* some mkdir found its directory created after the stat
    prev            \* what the previous start left: [ok, dirs, data]

cfgVars == <<repo_path, repos, recipes, sftp>>
defVars == <<steps, munki, trust, envTrust, ri, addLog, recipeLog>>
treeVars == <<localDirs, localFiles>>
remoteVars == <<remoteDirs, remoteData>>
connVars == <<transport, channel, outcome>>
walkVars == <<stack, mpc, wi>>
histVars == <<faults, envMkdirs, rerun, clean, raced, prev>>
upVars == <<treeVars, remoteVars, connVars, walkVars, log, histVars>>
vars == <<mode, pc, exitCode, fatalAt, cfgVars, defVars, upVars>>

\* ----------------------------------------------------------------- helpers

Root == <<>>

Parent(p) == SubSeq(p, 1, Len(p) - 1)

Last(s) == s[Len(s)]

\* Sequences over S of length at most n.
SeqsUpTo(S, n) == UNION {[1..k -> S] : k \in 0..n}

\* The trees (sets of paths closed under Parent) with at most n entries.
RECURSIVE TreesUpTo(_)
TreesUpTo(n) ==
    IF n = 0 THEN {{}}
    ELSE LET smaller == TreesUpTo(n - 1)
             Free(t, q, k) == k = 1 \/ Append(q, Names[k - 1]) \in t
             Grown(t) ==
                 {t \cup {Append(qk[1], Names[qk[2]])} :
                    qk \in {x \in (t \cup {Root}) \X (1..Len(Names)) :
                              Free(t, x[1], x[2])}}
         IN  smaller \cup UNION {Grown(t) : t \in smaller}

Leaves(t) == {p \in t : \A q \in t : Parent(q) # p}

\* The indices among 1..n, in order, at which s holds v.
RECURSIVE IndicesWhere(_, _, _)
IndicesWhere(s, n, v) ==
    IF n = 0 THEN <<>>
    ELSE IF s[n] = v THEN Append(IndicesWhere(s, n - 1, v), n)
         ELSE IndicesWhere(s, n - 1, v)

\* ------------------------------------------------- external commands

\* How a subprocess.run call can end.
Outcomes == {"ok", "nonzero", "notfound", "oserror"}

\* _run_command: what the caller sees of a call that ended with `o`.
\*   "zero"/"nonzero": a result object is returned; "raise": an Exception
\*   propagates to the caller; "exit": sys.exit(1) (SystemExit, which no
\*   `except Exception` of a caller catches).
_run_command(o, check) ==
    CASE o = "ok" -> "zero"
      [] o = "nonzero" -> IF check THEN "raise" ELSE "nonzero"
      [] o = "notfound" -> "exit"
      [] OTHER -> "raise"

\* ------------------------------------------------------------ default mode

\* Control passes to `step` of run() (or to a loop of it, from its start).
Enter(step) ==
    /\ pc' = step
    /\ steps' = Append(steps, step)
    /\ ri' = 1

\* The process ends: sys.exit(code) or the end of main.
Exit(code, at) ==
    /\ pc' = "exited"
    /\ exitCode' = code
    /\ fatalAt' = at

\* A configure_munki_repo that goes on to the write for a path not on disk.
configure_munki_repo_no_exists_check(path, o) ==
    IF path = "unset" THEN "unset"
    ELSE LET r == _run_command(IF path = "missing" THEN "nonzero" ELSE o, TRUE)
         IN  IF r = "zero" THEN "ok" ELSE r

\* configure_munki_repo: what it does for a repo_path and, when it gets to
\* the preference write, for the outcome `o` of the defaults command.
\*   "unset"/"missing": warning, return; "ok": written, return;
\*   "raise": logged and re-raised (line 109); "exit": sys.exit in _run_command.
configure_munki_repo(path, o) ==
    IF path = "unset" THEN "unset"
    ELSE IF path = "missing" THEN "missing"
    ELSE LET r == _run_command(o, TRUE)
         IN  IF r = "zero" THEN "ok" ELSE r

ConfigureMunkiRepo ==
    /\ mode = "default" /\ pc = "configure_munki_repo"
    /\ \E o \in Outcomes :
         LET r == configure_munki_repo(repo_path, o)
         IN  /\ munki' = (IF r \in {"unset", "missing"} THEN "skipped" ELSE o)
             /\ IF r \in {"raise", "exit"}
                  \* run()'s `except Exception` -> sys.exit(1), or SystemExit
                  THEN Exit(1, "configure_munki_repo") /\ UNCHANGED <<steps, ri>>
                  ELSE Enter("configure_trust_info") /\ UNCHANGED <<exitCode, fatalAt>>
    /\ UNCHANGED <<mode, cfgVars, trust, envTrust, addLog, recipeLog, upVars>>

\* configure_trust_info: "ok" (written, environment set), "warned" (the
\* exception is caught and logged), or "exit" (sys.exit in _run_command).
configure_trust_info(o) ==
    LET r == _run_command(o, TRUE)
    IN  IF r = "zero" THEN "ok" ELSE IF r = "raise" THEN "warned" ELSE r

ConfigureTrustInfo ==
    /\ mode = "default" /\ pc = "configure_trust_info"
    /\ \E o \in Outcomes :
         LET r == configure_trust_info(o)
         IN  /\ trust' = o
             /\ envTrust' = (r = "ok")
             /\ IF r \in {"raise", "exit"}
                  THEN Exit(1, "configure_trust_info") /\ UNCHANGED <<steps, ri>>
                  ELSE Enter("add_repositories") /\ UNCHANGED <<exitCode, fatalAt>>
    /\ UNCHANGED <<mode, cfgVars, munki, addLog, recipeLog, upVars>>

\* One iteration of the loop of add_repositories over an entry.
\*   oAdd: outcome of `autopkg repo-add`; oList: outcome of `autopkg
\*   repo-list`; listed: the name or url is in the list's output.
add_repository(entry, oAdd, oList, listed) ==
    IF entry = "invalid" THEN "skipped"
    ELSE LET r == _run_command(oAdd, FALSE)
         IN  IF r = "zero" THEN "added"
             ELSE IF r = "nonzero"
                  THEN LET l == _run_command(oList, TRUE)
                       IN  IF l = "zero"
                             THEN (IF listed THEN "already" ELSE "warned")
                           ELSE IF l = "raise" THEN "error"  \* except Exception
                           ELSE l
             ELSE IF r = "raise" THEN "error"                \* except Exception
             ELSE r

AddRepository ==
    /\ mode = "default" /\ pc = "add_repositories" /\ ri <= Len(repos)
    /\ \E oAdd \in Outcomes, oList \in Outcomes, listed \in BOOLEAN :
         LET r == add_repository(repos[ri], oAdd, oList, listed)
         IN  /\ addLog' = (IF r = "skipped" THEN addLog
                           ELSE Append(addLog, <<ri, r>>))
             /\ IF r \in {"raise", "exit"}
                  THEN Exit(1, "add_repositories") /\ UNCHANGED ri
                  ELSE ri' = ri + 1 /\ UNCHANGED <<pc, exitCode, fatalAt>>
    /\ UNCHANGED <<mode, cfgVars, steps, munki, trust, envTrust, recipeLog, upVars>>

\* The loop is over (or `not repos`): add_repositories returns.
AddRepositoriesDone ==
    /\ mode = "default" /\ pc = "add_repositories" /\ ri > Len(repos)
    /\ Enter("run_recipes")
    /\ UNCHANGED <<mode, exitCode, fatalAt, cfgVars, munki, trust, envTrust,
                   addLog, recipeLog, upVars>>

\* An iteration without the try/except: a failed invocation escapes.
run_recipe_unguarded(o) ==
    CASE o = "ok" -> "success"
      [] o = "nonzero" -> "failed"
      [] OTHER -> "raise"

\* One iteration of the loop of run_recipes: subprocess.run is called
\* directly, inside try/except Exception.
run_recipe(o) ==
    CASE o = "ok" -> "success"
      [] o = "nonzero" -> "failed"
      [] OTHER -> "caught"

RunRecipe ==
    /\ mode = "default" /\ pc = "run_recipes" /\ ri <= Len(recipes)
    /\ IF recipes[ri] = ""
         THEN /\ ri' = ri + 1
              /\ UNCHANGED <<recipeLog, pc, exitCode, fatalAt>>
         ELSE \E o \in Outcomes :
                LET r == run_recipe(o)
                IN  /\ recipeLog' = Append(recipeLog, <<ri, o>>)
                    /\ IF r \in {"raise", "exit"}
                         THEN Exit(1, "run_recipes") /\ UNCHANGED ri
                         ELSE ri' = ri + 1 /\ UNCHANGED <<pc, exitCode, fatalAt>>
    /\ UNCHANGED <<mode, cfgVars, steps, munki, trust, envTrust, addLog, upVars>>

\* run_recipes returns, run() logs completion, main returns: exit code 0.
RunRecipesDone ==
    /\ mode = "default" /\ pc = "run_recipes" /\ ri > Len(recipes)
    /\ Exit(0, "none")
    /\ UNCHANGED <<mode, cfgVars, defVars, upVars>>

DefaultNext ==
    \/ ConfigureMunkiRepo
    \/ ConfigureTrustInfo
    \/ AddRepository
    \/ AddRepositoriesDone
    \/ RunRecipe
    \/ RunRecipesDone

\* ------------------------------------------------------------- upload mode

\* The content of the local file at p, of a file the server had before, and
\* of a file whose transfer broke off.
LocalData(p) == <<"bytes of">> \o p
OldData == <<"old">>
PartialData == <<"partial">>

\* os.listdir(local_dir): the names of the entries of directory d.
Children(d) ==
    {Names[k] : k \in {i \in 1..Len(Names) :
                         Append(d, Names[i]) \in localDirs \cup localFiles}}

\* The server's file system.
IsDir(p) == p = Root \/ p \in remoteDirs
Exists(p) == IsDir(p) \/ p \in DOMAIN remoteData
WithFile(p, data) ==
    [q \in DOMAIN remoteData \cup {p} |-> IF q = p THEN data ELSE remoteData[q]]

\* sftp.stat(p): "found", "absent" (FileNotFoundError) or "error" (any other
\* exception: the connection dropped, permission denied).
StatResults(p) ==
    {IF Exists(p) THEN "found" ELSE "absent"}
        \cup (IF faults < MaxFaults THEN {"error"} ELSE {})

\* sftp.mkdir(p): "ok", "failed" (the server refuses: p exists or its parent
\* is no directory) or "error" (a transport fault).
MkdirResults(p) ==
    {IF ~Exists(p) /\ IsDir(Parent(p)) THEN "ok" ELSE "failed"}
        \cup (IF faults < MaxFaults THEN {"error"} ELSE {})

\* sftp.put(local, p): "ok", "failed" (the server refuses: the parent of p is
\* no directory or p is one) or "error" (the transfer breaks off).
PutResults(p) ==
    {IF IsDir(Parent(p)) /\ ~IsDir(p) THEN "ok" ELSE "failed"}
        \cup (IF faults < MaxFaults THEN {"error"} ELSE {})

Logged(op, p, res) == log' = Append(log, [op |-> op, path |-> p, res |-> res])

Fault(res) ==
    /\ faults' = (IF res = "error" THEN faults + 1 ELSE faults)
    /\ clean' = (clean /\ res # "error")

\* The checks without sftp_password in the list `all([...])` tests.
upload_preconditions_no_password(s, path) ==
    IF ~s.paramiko THEN "exit"
    ELSE IF ~(s.host /\ s.user) THEN "exit"
    ELSE IF path = "unset" THEN "exit"
    ELSE IF path = "missing" THEN "exit"
    ELSE "connect"

\* upload_repo, lines 211-239: "connect" when every check passes, "exit"
\* (sys.exit(1)) otherwise. sftp_port is read with a default of 22 and is not
\* among the settings `all([...])` tests.
upload_preconditions(s, path) ==
    IF ~s.paramiko THEN "exit"
    ELSE IF ~(s.host /\ s.user /\ s.password) THEN "exit"
    ELSE IF path = "unset" THEN "exit"
    ELSE IF path = "missing" THEN "exit"
    ELSE "connect"

UploadPreconditions ==
    /\ mode = "upload" /\ pc = "upload_repo"
    /\ IF upload_preconditions(sftp, repo_path) = "connect"
         THEN pc' = "connect" /\ UNCHANGED <<exitCode, fatalAt>>
         ELSE Exit(1, "upload_repo")
    /\ UNCHANGED <<mode, cfgVars, defVars, upVars>>

\* An exception in the try block: the except clause logs it and calls
\* sys.exit(1); the finally block runs before the process ends.
Failed(how) ==
    /\ outcome' = how
    /\ pc' = "finally"

\* Line 248: paramiko.Transport((host, port)) connects the socket.
Connect ==
    /\ mode = "upload" /\ pc = "connect"
    /\ \E ok \in BOOLEAN :
         IF ok THEN /\ transport' = "open"
                    /\ pc' = "authenticate"
                    /\ UNCHANGED <<outcome, clean>>
               ELSE /\ Failed("connection_error")
                    /\ clean' = FALSE
                    /\ UNCHANGED transport
    /\ UNCHANGED <<mode, exitCode, fatalAt, cfgVars, defVars, treeVars, remoteVars,
                   channel, walkVars, log, faults, envMkdirs, rerun, raced, prev>>

\* Lines 251-252: start_client and auth_password.
Authenticate ==
    /\ mode = "upload" /\ pc = "authenticate"
    /\ \E res \in {"ok", "auth_failed", "connection_error"} :
         IF res = "ok" THEN pc' = "open_sftp" /\ UNCHANGED <<outcome, clean>>
                       ELSE Failed(res) /\ clean' = FALSE
    /\ UNCHANGED <<mode, exitCode, fatalAt, cfgVars, defVars, treeVars, remoteVars,
                   transport, channel, walkVars, log, faults, envMkdirs, rerun,
                   raced, prev>>

\* Lines 255-259: the SFTP client is opened and _upload_directory is called
\* with the local root and '/'.
OpenSftp ==
    /\ mode = "upload" /\ pc = "open_sftp"
    /\ \E ok \in BOOLEAN :
         IF ok THEN /\ channel' = "open"
                    /\ pc' = "mirror"
                    /\ stack' = <<[dir |-> Root, todo |-> Children(Root)]>>
                    /\ mpc' = "ensure_probe"
                    /\ UNCHANGED <<outcome, clean>>
               ELSE /\ Failed("connection_error")
                    /\ clean' = FALSE
                    /\ UNCHANGED <<channel, stack, mpc>>
    /\ UNCHANGED <<mode, exitCode, fatalAt, cfgVars, defVars, treeVars, remoteVars,
                   transport, wi, log, faults, envMkdirs, rerun, raced, prev>>

Top == stack[Len(stack)]

\* _ensure_remote_directory after its first stat (lines 308-316).
after_probe(res, dir) ==
    IF res = "found" THEN "done"
    ELSE IF res = "absent" THEN (IF Len(dir) = 0 THEN "done" ELSE "walk")
    ELSE "raise"

\* ... after the stat of a segment (lines 318-320).
after_walk_stat(res) ==
    IF res = "found" THEN "next"
    ELSE IF res = "absent" THEN "mkdir"
    ELSE "raise"

\* A walk without the inner try/except around mkdir.
after_mkdir_unguarded(res) == IF res = "ok" THEN "next" ELSE "raise"

\* ... after the mkdir of a segment (lines 321-325): `except Exception` logs
\* whatever mkdir raised and the loop goes on.
after_mkdir(res) == "next"

\* A loop that treats files as run_recipes treats recipes: log and go on.
after_put_isolated(res) == "next"

\* _upload_directory after sftp.put (line 303): an exception propagates.
after_put(res) == IF res = "ok" THEN "next" ELSE "raise"

\* A recursion that leaves the subdirectory to be created by nobody.
upload_directory_entry_no_ensure == "loop"

\* _upload_directory starts with _ensure_remote_directory (line 290).
upload_directory_entry == "ensure_probe"

\* The segments' loop moves on: to the next segment, or out of the function.
NextSegment ==
    IF wi < Len(Top.dir)
      THEN mpc' = "walk_stat" /\ wi' = wi + 1
      ELSE mpc' = "loop" /\ UNCHANGED wi

\* What a step of the mirror does with the verdict of the code on a result.
\* "raise": the exception leaves _upload_directory and upload_repo's except
\* clause takes it.
MirrorGoes(verdict, onward) ==
    IF verdict = "raise"
      THEN Failed("upload_failed") /\ UNCHANGED <<stack, mpc, wi>>
      ELSE onward /\ UNCHANGED <<outcome, pc>>

\* Line 309: sftp.stat(remote_dir).
EnsureProbe ==
    /\ mode = "upload" /\ pc = "mirror" /\ mpc = "ensure_probe"
    /\ \E res \in StatResults(Top.dir) :
         LET v == after_probe(res, Top.dir)
         IN  /\ Logged("stat", Top.dir, res)
             /\ Fault(res)
             /\ MirrorGoes(v, /\ mpc' = (IF v = "walk" THEN "walk_stat" ELSE "loop")
                              /\ wi' = 1
                              /\ UNCHANGED stack)
    /\ UNCHANGED <<mode, exitCode, fatalAt, cfgVars, defVars, treeVars, remoteVars,
                   transport, channel, envMkdirs, rerun, raced, prev>>

\* Line 319: sftp.stat(current_path) of segment wi.
WalkStat ==
    /\ mode = "upload" /\ pc = "mirror" /\ mpc = "walk_stat"
    /\ LET cur == SubSeq(Top.dir, 1, wi)
       IN  \E res \in StatResults(cur) :
             LET v == after_walk_stat(res)
             IN  /\ Logged("stat", cur, res)
                 /\ Fault(res)
                 /\ MirrorGoes(v, /\ IF v = "mkdir"
                                       THEN mpc' = "walk_mkdir" /\ UNCHANGED wi
                                       ELSE NextSegment
                                  /\ UNCHANGED stack)
    /\ UNCHANGED <<mode, exitCode, fatalAt, cfgVars, defVars, treeVars, remoteVars,
                   transport, channel, envMkdirs, rerun, raced, prev>>

\* Line 322: sftp.mkdir(current_path) of segment wi.
WalkMkdir ==
    /\ mode = "upload" /\ pc = "mirror" /\ mpc = "walk_mkdir"
    /\ LET cur == SubSeq(Top.dir, 1, wi)
       IN  \E res \in MkdirResults(cur) :
             /\ Logged("mkdir", cur, res)
             /\ Fault(res)
             /\ remoteDirs' = (IF res = "ok" THEN remoteDirs \cup {cur}
                               ELSE remoteDirs)
             /\ raced' = (raced \/ (res = "failed" /\ IsDir(cur)))
             /\ MirrorGoes(after_mkdir(res), NextSegment /\ UNCHANGED stack)
    /\ UNCHANGED <<mode, exitCode, fatalAt, cfgVars, defVars, treeVars, remoteData,
                   transport, channel, envMkdirs, rerun, prev>>

\* Lines 293-299: the next entry is a directory; _upload_directory recurses.
Descend ==
    /\ mode = "upload" /\ pc = "mirror" /\ mpc = "loop"
    /\ \E item \in Top.todo :
         LET child == Append(Top.dir, item)
         IN  /\ child \in localDirs
             /\ stack' = Append([stack EXCEPT ![Len(stack)].todo = @ \ {item}],
                                [dir |-> child, todo |-> Children(child)])
    /\ mpc' = upload_directory_entry
    /\ UNCHANGED <<mode, pc, exitCode, fatalAt, cfgVars, defVars, treeVars,
                   remoteVars, connVars, wi, log, histVars>>

\* Lines 300-304: the next entry is a file; sftp.put transfers it.
PutFile ==
    /\ mode = "upload" /\ pc = "mirror" /\ mpc = "loop"
    /\ \E item \in Top.todo :
         LET child == Append(Top.dir, item)
         IN  /\ child \notin localDirs
             /\ \E res \in PutResults(child) :
                  /\ Logged("put", child, res)
                  /\ Fault(res)
                  /\ \/ /\ res = "ok"
                        /\ remoteData' = WithFile(child, LocalData(child))
                     \/ /\ res # "ok"
                        /\ UNCHANGED remoteData
                     \/ /\ res = "error" /\ IsDir(Parent(child)) /\ ~IsDir(child)
                        /\ remoteData' = WithFile(child, PartialData)
                  /\ MirrorGoes(after_put(res),
                                /\ stack' = [stack EXCEPT ![Len(stack)].todo = @ \ {item}]
                                /\ UNCHANGED <<mpc, wi>>)
    /\ UNCHANGED <<mode, exitCode, fatalAt, cfgVars, defVars, treeVars, remoteDirs,
                   transport, channel, envMkdirs, rerun, raced, prev>>

\* The for loop of a frame is over: _upload_directory returns, to its caller's
\* loop or (line 261) to upload_repo, which logs success.
Return ==
    /\ mode = "upload" /\ pc = "mirror" /\ mpc = "loop" /\ Top.todo = {}
    /\ stack' = SubSeq(stack, 1, Len(stack) - 1)
    /\ IF Len(stack) = 1
         THEN outcome' = "success" /\ pc' = "finally"
         ELSE UNCHANGED <<outcome, pc>>
    /\ UNCHANGED <<mode, exitCode, fatalAt, cfgVars, defVars, treeVars, remoteVars,
                   transport, channel, mpc, wi, log, histVars>>

\* A finally block without the inner try/except: the close's error escapes.
close_unguarded(ok) == IF ok THEN "continue" ELSE "raise"

\* Lines 274-283: what the finally block does when a close raises: the bare
\* `except: pass` drops it.
close_quietly(ok) == "continue"

\* Except clauses that log and forget to call sys.exit(1).
exit_code_logged_only(how) == 0

\* Lines 261-271: the exit code the try block's outcome leads to: each
\* except clause calls sys.exit(1); after line 261 main returns (0).
exit_code(how) == IF how = "success" THEN 0 ELSE 1

\* A close of a connection in state c that ends well or raises.
Closed(c, ok) == IF c # "open" THEN c ELSE IF ok THEN "closed" ELSE "close_failed"

\* Lines 272-283, the finally block: if sftp: sftp.close(); if transport:
\* transport.close(); then the pending SystemExit ends the process with 1, or
\* upload_repo and main return.
FinallyClose ==
    /\ mode = "upload" /\ pc = "finally"
    /\ \E okSftp \in BOOLEAN, okTransport \in BOOLEAN :
         /\ channel' = Closed(channel, okSftp)
         /\ IF channel = "open" /\ ~okSftp /\ close_quietly(okSftp) = "raise"
              THEN UNCHANGED transport /\ Exit(1, "finally")
              ELSE /\ transport' = Closed(transport, okTransport)
                   /\ IF transport = "open" /\ ~okTransport
                         /\ close_quietly(okTransport) = "raise"
                        THEN Exit(1, "finally")
                        ELSE Exit(exit_code(outcome),
                                  IF outcome = "success" THEN "none"
                                  ELSE "upload_repo")
    /\ UNCHANGED <<mode, cfgVars, defVars, treeVars, remoteVars, outcome,
                   walkVars, log, histVars>>

\* Somebody else (a run that was cut short and still writes, another runner)
\* creates one of the directories the mirror is about to need.
EnvMkdir ==
    /\ mode = "upload" /\ pc = "mirror" /\ envMkdirs < MaxEnvMkdirs
    /\ \E d \in localDirs :
         /\ ~Exists(d) /\ IsDir(Parent(d))
         /\ remoteDirs' = remoteDirs \cup {d}
    /\ envMkdirs' = envMkdirs + 1
    /\ UNCHANGED <<mode, pc, exitCode, fatalAt, cfgVars, defVars, treeVars,
                   remoteData, connVars, walkVars, log, faults, rerun, clean,
                   raced, prev>>

\* The program is started again with --upload, after a run whose mirror
\* completed. (What a run that was cut short leaves behind is among the
\* initial states of the server.)
Rerun ==
    /\ mode = "upload" /\ pc = "exited" /\ ~rerun
    /\ outcome = "success"
    /\ prev' = [ok |-> clean /\ exitCode = 0, dirs |-> remoteDirs, data |-> remoteData]
    /\ rerun' = TRUE
    /\ pc' = "upload_repo"
    /\ exitCode' = 0 /\ fatalAt' = "none"
    /\ transport' = "none" /\ channel' = "none" /\ outcome' = "none"
    /\ stack' = <<>> /\ mpc' = "idle" /\ wi' = 1
    /\ log' = <<>>
    /\ clean' = TRUE
    /\ UNCHANGED <<mode, cfgVars, defVars, treeVars, remoteVars, faults, envMkdirs,
                   raced>>

UploadNext ==
    \/ UploadPreconditions
    \/ Connect
    \/ Authenticate
    \/ OpenSftp
    \/ EnsureProbe
    \/ WalkStat
    \/ WalkMkdir
    \/ Descend
    \/ PutFile
    \/ Return
    \/ FinallyClose
    \/ EnvMkdir
    \/ Rerun

\* ------------------------------------------------------------ specification

FullSftp == [paramiko |-> TRUE, host |-> TRUE, port |-> TRUE, user |-> TRUE,
             password |-> TRUE]

SftpConfigs == [paramiko : BOOLEAN, host : BOOLEAN, port : BOOLEAN,
                user : BOOLEAN, password : BOOLEAN]

NoUpload ==
    /\ transport = "none" /\ channel = "none" /\ outcome = "none"
    /\ stack = <<>> /\ mpc = "idle" /\ wi = 1
    /\ log = <<>>
    /\ faults = 0 /\ envMkdirs = 0 /\ rerun = FALSE /\ clean = TRUE /\ raced = FALSE
    /\ prev = [ok |-> FALSE, dirs |-> {}, data |-> <<>>]

NoDefault ==
    /\ munki = "none" /\ trust = "none"
    /\ envTrust = FALSE /\ ri = 1 /\ addLog = <<>> /\ recipeLog = <<>>

\* main with no --upload: runner.run().
InitDefault ==
    /\ mode = "default" /\ pc = "configure_munki_repo"
    /\ repo_path \in {"unset", "missing", "exists"}
    /\ repos \in SeqsUpTo({"valid", "invalid"}, MaxRepos)
    /\ recipes \in SeqsUpTo({"recipe", ""}, MaxRecipes)
    /\ sftp = FullSftp
    /\ steps = <<"configure_munki_repo">>
    /\ localDirs = {} /\ localFiles = {} /\ remoteDirs = {} /\ remoteData = <<>>

\* main with --upload, over every configuration of the settings upload_repo
\* reads; the local tree, where there is one, is an empty directory.
InitUploadSettings ==
    /\ mode = "upload" /\ pc = "upload_repo"
    /\ repo_path \in {"unset", "missing", "exists"}
    /\ repos = <<>> /\ recipes = <<>>
    /\ sftp \in SftpConfigs
    /\ localDirs = {} /\ localFiles = {} /\ remoteDirs = {} /\ remoteData = <<>>

\* main with --upload and a complete configuration, over the local trees and
\* over what the server holds of them already: some of the directories, old
\* versions of some of the files, and files where directories are to go.
InitUploadTrees ==
    /\ mode = "upload" /\ pc = "upload_repo"
    /\ repo_path = "exists"
    /\ repos = <<>> /\ recipes = <<>>
    /\ sftp = FullSftp
    /\ \E t \in TreesUpTo(MaxEntries) :
         /\ localFiles \in SUBSET Leaves(t)
         /\ localDirs = t \ localFiles
    /\ remoteDirs \in {D \in SUBSET localDirs : \A d \in D : Parent(d) \in D \cup {Root}}
    /\ \E old \in SUBSET {p \in (localFiles \cup localDirs) \ remoteDirs :
                            Parent(p) \in remoteDirs \cup {Root}} :
         remoteData = [p \in old |-> OldData]

Init ==
    /\ exitCode = 0 /\ fatalAt = "none"
    /\ NoDefault /\ NoUpload
    /\ \/ InitDefault
       \/ (InitUploadSettings \/ InitUploadTrees) /\ steps = <<>>

Next == DefaultNext \/ UploadNext

Spec == Init /\ [][Next]_vars

\* ------------------------------------------------------------------ claims

InSteps(s) == \E i \in 1..Len(steps) : steps[i] = s

\* Something of the network was tried: the Transport was made or failed to be.
ConnectionAttempted == transport # "none" \/ outcome # "none"

\* The remote operations of this run that are puts which ended well.
PutsDone == {i \in 1..Len(log) : log[i].op = "put" /\ log[i].res = "ok"}

\* C1: whenever the mirror (_upload_directory called by upload_repo) completes
\* without raising, every file of the local tree is on the server at the same
\* path below the root, with the local file's content.
C1_MirrorUploadsEveryFile ==
    outcome = "success" =>
        \A f \in localFiles :
            f \in DOMAIN remoteData /\ remoteData[f] = LocalData(f)

\* C1's case: a mirror that completed, of a tree with a file three levels
\* down whose directories the mirror itself created.
C1_Witness ==
    /\ outcome = "success"
    /\ \E f \in localFiles : Len(f) = 3
    /\ \E i \in 1..Len(log) : log[i].op = "mkdir" /\ log[i].res = "ok"

\* Directory d was ensured before operation i of the log: it was probed, and
\* found or else its creation asked for.
EnsuredBefore(d, i) ==
    \E j \in 1..(i - 1) :
        /\ log[j].op = "stat" /\ log[j].path = d
        /\ \/ log[j].res = "found"
           \/ \E k \in (j + 1)..(i - 1) : log[k].op = "mkdir" /\ log[k].path = d

\* C2: remote operations are issued parent before child: no put to p and no
\* stat or mkdir of p is issued before the parent directory of p has been
\* ensured (probed, and its creation issued if it was absent).
C2_ParentBeforeChild ==
    \A i \in 1..Len(log) :
        log[i].path # Root => EnsuredBefore(Parent(log[i].path), i)

\* C2's case: the tree A/B/file of the specification, with nothing of it on
\* the server: A is created, then A/B, then the file is put.
C2_Witness ==
    \E i \in 1..Len(log) :
        /\ log[i].op = "put" /\ log[i].res = "ok" /\ Len(log[i].path) = 3
        /\ \E j \in 1..(i - 1) :
             /\ log[j].op = "mkdir" /\ log[j].res = "ok"
             /\ log[j].path = Parent(log[i].path)
             /\ \E k \in 1..(j - 1) :
                  /\ log[k].op = "mkdir" /\ log[k].res = "ok"
                  /\ log[k].path = Parent(log[j].path)

\* C3: directories that exist already never make the mirror fail.
\* (a) _ensure_remote_directory raises on nothing but a stat that ended with
\* an error other than "not found": not on a directory or segment that is
\* there, and not on a mkdir that fails because the segment appeared after
\* the stat. (b) A mirror that is started over the result of a mirror that
\* succeeded, and that the server serves without a fault, succeeds and
\* leaves the server's tree as it found it.
C3_ExistingDirectoriesTolerated ==
    /\ outcome = "upload_failed" =>
           \/ Last(log).op = "put"
           \/ Last(log).op = "stat" /\ Last(log).res = "error"
    /\ (rerun /\ prev.ok /\ clean /\ pc = "exited") =>
           /\ exitCode = 0
           /\ remoteDirs = prev.dirs
           /\ remoteData = prev.data

\* C3's case: a second mirror has run to its end over the result of a first
\* one, and a mkdir met a directory that appeared after its stat.
C3_Witness ==
    /\ rerun /\ prev.ok /\ clean /\ pc = "exited"
    /\ raced
    /\ localFiles # {} /\ remoteDirs # {}

\* The recipes run_recipes has called autopkg for, in the order of the calls.
Attempted == [i \in 1..Len(recipeLog) |-> recipeLog[i][1]]

\* C4: in default mode, once run_recipes runs, every non-empty recipe is
\* attempted exactly once, in list order, however the earlier ones ended
\* (nonzero code, or an invocation that failed), and the run that got to its
\* recipes ends with exit code 0.
C4_EveryRecipeAttempted ==
    mode = "default" =>
        /\ pc = "run_recipes" =>
               Attempted = IndicesWhere(recipes, ri - 1, "recipe")
        /\ (pc = "exited" /\ InSteps("run_recipes")) =>
               /\ Attempted = IndicesWhere(recipes, Len(recipes), "recipe")
               /\ exitCode = 0

\* C4's case: the first recipe could not be invoked, the second ended with a
\* nonzero code, and the run is over.
C4_Witness ==
    /\ pc = "exited" /\ exitCode = 0
    /\ Len(recipeLog) = 2
    /\ recipeLog[1][2] = "notfound"
    /\ recipeLog[2][2] = "nonzero"

\* C5: a registration failure for one repository entry never prevents the
\* repo-add call for a later valid entry, and never ends the run: once
\* add_repositories is left, repo-add was called for every valid entry, and
\* the process did not end in it.
C5_RegistrationIsolated ==
    (mode = "default" /\ InSteps("add_repositories") /\ pc # "add_repositories") =>
        /\ [i \in 1..Len(addLog) |-> addLog[i][1]]
               = IndicesWhere(repos, Len(repos), "valid")
        /\ fatalAt # "add_repositories"

\* C6 as stated: no connection is attempted unless host, port, username and
\* password are all set and the local repository path exists on disk.
C6_AllFourSettingsRequired ==
    (mode = "upload" /\ ConnectionAttempted) =>
        /\ sftp.host /\ sftp.port /\ sftp.user /\ sftp.password
        /\ repo_path = "exists"

\* C6, amended: no connection is attempted unless paramiko is there, host,
\* username and password are set and the local repository path exists on
\* disk; when one of these fails the process ends with code 1 and nothing of
\* the network was tried. (sftp_port is not among them: it defaults to 22.)
C6_NoConnectionWithoutPreconditions ==
    mode = "upload" =>
        /\ ConnectionAttempted =>
               /\ sftp.paramiko /\ sftp.host /\ sftp.user /\ sftp.password
               /\ repo_path = "exists"
        /\ (pc # "upload_repo" /\
            ~(sftp.paramiko /\ sftp.host /\ sftp.user /\ sftp.password
                /\ repo_path = "exists")) =>
               pc = "exited" /\ exitCode = 1 /\ ~ConnectionAttempted

\* C6's case: sftp_password is missing, everything else is there, and the
\* process has ended with code 1 without a connection.
C6_Witness ==
    /\ mode = "upload" /\ pc = "exited" /\ exitCode = 1
    /\ ~sftp.password /\ sftp.host /\ sftp.user /\ sftp.port /\ sftp.paramiko
    /\ repo_path = "exists"
    /\ ~ConnectionAttempted

\* C7: when the process ends after upload_repo opened the transport, the
\* transport's close and (if the SFTP client was opened) the client's close
\* have both been called, whether or not one of them raised, and the exit
\* code is the one the try block's outcome decides.
C7_ConnectionsClosed ==
    (mode = "upload" /\ pc = "exited") =>
        /\ transport # "open"
        /\ channel # "open"
        /\ exitCode = (IF outcome = "success" THEN 0 ELSE 1)

\* C7's case: the mirror failed partway, the client's close raised, and the
\* transport was closed all the same.
C7_Witness ==
    /\ mode = "upload" /\ pc = "exited"
    /\ outcome = "upload_failed"
    /\ channel = "close_failed" /\ transport = "closed"

\* C8: configure_trust_info never makes the run fatal: however the write of
\* the preference fails, the sequence goes on to add_repositories.
C8_TrustInfoNeverFatal ==
    (mode = "default" /\ trust \notin {"none", "ok"}) =>
        /\ InSteps("add_repositories")
        /\ fatalAt # "configure_trust_info"

\* C9 as stated: whether repo_path is unset, not on disk, or its preference
\* write fails, execution continues with configure_trust_info.
C9_RepoPathStepRecoverable ==
    (mode = "default" /\ munki # "none") =>
        /\ InSteps("configure_trust_info")
        /\ fatalAt # "configure_munki_repo"

\* C9, amended: when repo_path is unset or not on disk, configure_munki_repo
\* skips the write and returns, and execution continues with
\* configure_trust_info; when the preference write fails, the process ends
\* with code 1 and no later step (trust suppression, registration, recipes)
\* is entered.
C9_RepoPathStepAmended ==
    mode = "default" =>
        /\ (repo_path \in {"unset", "missing"} /\ munki # "none") =>
               /\ munki = "skipped"
               /\ InSteps("configure_trust_info")
               /\ fatalAt # "configure_munki_repo"
        /\ munki \in {"nonzero", "notfound", "oserror"} =>
               /\ pc = "exited" /\ exitCode = 1
               /\ steps = <<"configure_munki_repo">>
               /\ addLog = <<>> /\ recipeLog = <<>>

\* C9's case: repo_path is not on disk, and the run went on to attempt its
\* recipe and ended with code 0.
C9_Witness ==
    /\ mode = "default" /\ repo_path = "missing" /\ munki = "skipped"
    /\ pc = "exited" /\ exitCode = 0
    /\ Len(recipeLog) >= 1

\* C10: a put that fails aborts the walk: it is the last remote operation of
\* the run, the files put before it are still on the server with their
\* content, and the process ends with a nonzero code.
C10_FailedPutAbortsWalk ==
    \A i \in 1..Len(log) :
        (log[i].op = "put" /\ log[i].res # "ok") =>
            /\ i = Len(log)
            /\ pc \in {"finally", "exited"}
            /\ pc = "exited" => exitCode # 0
            /\ \A j \in PutsDone :
                 /\ log[j].path \in DOMAIN remoteData
                 /\ remoteData[log[j].path] = LocalData(log[j].path)

\* C10's case: a file was put, a later put failed with other entries of the
\* tree still to go, and the process has ended.
C10_Witness ==
    /\ pc = "exited" /\ exitCode = 1
    /\ Len(log) > 0 /\ Last(log).op = "put" /\ Last(log).res # "ok"
    /\ PutsDone # {}
    /\ \E k \in 1..Len(stack) : \E x \in stack[k].todo :
         Append(stack[k].dir, x) # Last(log).path

====
